---- MODULE Spec2Model ----
(***************************************************************************)
(* Model of src/slurm/sacct.rs: SacctOptions::to_args, run_sacct and       *)
(* parse_sacct_output.                                                     *)
(*                                                                         *)
(* Command-line tokens are TLA+ strings (joined with \o).  Text that the   *)
(* parser walks character by character (stdout, stderr, column values,     *)
(* string attributes of a Job) is a sequence of one-character strings.     *)
(* Option<T> is <<>> (None) or <<v>> (Some(v)).                            *)
(***************************************************************************)
EXTENDS Integers, Sequences, FiniteSets, TLC

VARIABLES
    options,    \* the SacctOptions of the query
    args,       \* result of to_args (argument tokens)
    pc,         \* position of the caller inside run_sacct / parse_sacct_output
    proc,       \* the external sacct process: none | running | exited | killed
    spawns,     \* number of times the command was invoked
    exit_ok,    \* output.status.success()
    raw_out,    \* output.stdout (bytes)
    raw_err,    \* output.stderr (bytes)
    stdout,     \* decoded text handed to parse_sacct_output
    result,     \* outcome of run_sacct / parse_sacct_output
    cancelled,  \* the future of run_sacct was dropped
    fields,     \* parser: column index -> field name
    lines,      \* parser: stdout.lines()
    li,         \* parser: index of the line being read
    parts,      \* parser: columns of the current line
    idx,        \* parser: index of the column being read (1-based)
    job,        \* parser: the Job being filled
    jobs,       \* parser: the jobs pushed so far
    srcs,       \* history: index of the source line of each pushed job
    vals        \* round trip: the values the line was built from

vars == <<options, args, pc, proc, spawns, exit_ok, raw_out, raw_err, stdout,
          result, cancelled, fields, lines, li, parts, idx, job, jobs, srcs, vals>>

procVars == <<proc, spawns, exit_ok, raw_out, raw_err, cancelled>>
parseVars == <<fields, lines, li, parts, idx, job, jobs, srcs>>

-----------------------------------------------------------------------------
(* Bounds of the model. *)

MaxFilter == 2      \* longest partitions / qos / states list
MaxFields == 2      \* longest format_fields list
MaxCols == 2        \* most columns in a generated output line
MaxLines == 3       \* most lines in a generated output text
MaxVaried == 2      \* round trip: width of the window of varied fields

-----------------------------------------------------------------------------
(* Text helpers: str::trim, str::split, str::lines, slice::join. *)

WhiteSpace == {" ", "\t", "\n", "\r"}

RECURSIVE TrimStart(_)
TrimStart(s) ==
    IF s # <<>> /\ Head(s) \in WhiteSpace THEN TrimStart(Tail(s)) ELSE s

RECURSIVE TrimEnd(_)
TrimEnd(s) ==
    IF s # <<>> /\ s[Len(s)] \in WhiteSpace
    THEN TrimEnd(SubSeq(s, 1, Len(s) - 1))
    ELSE s

Trim(s) == TrimEnd(TrimStart(s))

FirstIndex(s, c) ==
    IF \E i \in 1..Len(s) : s[i] = c
    THEN CHOOSE i \in 1..Len(s) : s[i] = c /\ \A j \in 1..(i - 1) : s[j] # c
    ELSE 0

\* str::split(c): always at least one piece.
RECURSIVE SplitOn(_, _)
SplitOn(s, c) ==
    LET i == FirstIndex(s, c)
    IN  IF i = 0
        THEN <<s>>
        ELSE <<SubSeq(s, 1, i - 1)>> \o SplitOn(SubSeq(s, i + 1, Len(s)), c)

\* str::lines(): split at "\n", the final line ending is optional, and a
\* "\r" before a "\n" belongs to the line ending.
StrLines(s) ==
    LET pieces == SplitOn(s, "\n")
        n == Len(pieces)
        kept == IF pieces[n] = <<>> THEN n - 1 ELSE n
        StripCr(p, terminated) ==
            IF terminated /\ p # <<>> /\ p[Len(p)] = "\r"
            THEN SubSeq(p, 1, Len(p) - 1)
            ELSE p
    IN  [k \in 1..kept |-> StripCr(pieces[k], k < n)]

\* [String]::join(sep) on tokens.
RECURSIVE Join(_, _)
Join(ss, sep) ==
    IF ss = <<>> THEN ""
    ELSE IF Len(ss) = 1 THEN ss[1]
    ELSE ss[1] \o sep \o Join(Tail(ss), sep)

\* join on character sequences.
RECURSIVE JoinChars(_, _)
JoinChars(ss, sep) ==
    IF ss = <<>> THEN <<>>
    ELSE IF Len(ss) = 1 THEN ss[1]
    ELSE ss[1] \o <<sep>> \o JoinChars(Tail(ss), sep)

Digits == <<"0", "1", "2", "3", "4", "5", "6", "7", "8", "9">>

\* Display of a u32 ({} in format!): decimal, no padding.
RECURSIVE FormatU32(_)
FormatU32(n) ==
    IF n < 10 THEN Digits[n + 1]
    ELSE FormatU32(n \div 10) \o Digits[(n % 10) + 1]

-----------------------------------------------------------------------------
(* JobState and Job live in the parent module (super::{Job, JobState}).    *)

JobStates == {"Pending", "Running", "Completed", "Failed", "Cancelled", "Other"}

\* Display of a JobState: its canonical (upper-case) string.
JobStateToString(st) ==
    CASE st = "Pending" -> "PENDING"
      [] st = "Running" -> "RUNNING"
      [] st = "Completed" -> "COMPLETED"
      [] st = "Failed" -> "FAILED"
      [] st = "Cancelled" -> "CANCELLED"
      [] OTHER -> "OTHER"

\* FromStr of a JobState: Ok(state) as <<state>>, Err as <<>>.
ParseJobState(value) ==
    CASE value = <<"P", "E", "N", "D", "I", "N", "G">> -> <<"Pending">>
      [] value = <<"R", "U", "N", "N", "I", "N", "G">> -> <<"Running">>
      [] value = <<"C", "O", "M", "P", "L", "E", "T", "E", "D">> -> <<"Completed">>
      [] value = <<"F", "A", "I", "L", "E", "D">> -> <<"Failed">>
      [] value = <<"C", "A", "N", "C", "E", "L", "L", "E", "D">> -> <<"Cancelled">>
      [] OTHER -> <<>>

\* Job::default(): strings empty, counters zero, options None.  Which state
\* is the default one is not fixed by sacct.rs; no property below relies on it.
JobDefault ==
    [id |-> <<>>, name |-> <<>>, user |-> <<>>, state |-> "Pending",
     time |-> <<>>, nodes |-> 0, node |-> <<>>, cpus |-> 0, memory |-> <<>>,
     partition |-> <<>>, qos |-> <<>>, account |-> <<>>, priority |-> <<>>,
     work_dir |-> <<>>, submit_time |-> <<>>, start_time |-> <<>>,
     end_time |-> <<>>, pending_reason |-> <<>>]

-----------------------------------------------------------------------------
(* str::parse::<u32>(): Ok(n) as <<n>>, Err as <<>>.                       *)

U32MaxDigits == <<"4", "2", "9", "4", "9", "6", "7", "2", "9", "5">>

IsDigit(c) == \E d \in 1..10 : Digits[d] = c

DigitVal(c) == (CHOOSE d \in 1..10 : Digits[d] = c) - 1

RECURSIVE StripZeros(_)
StripZeros(s) ==
    IF Len(s) > 1 /\ Head(s) = "0" THEN StripZeros(Tail(s)) ELSE s

\* a > b for two digit strings of the same length
DigitsGreater(a, b) ==
    \E i \in 1..Len(a) :
        /\ DigitVal(a[i]) > DigitVal(b[i])
        /\ \A j \in 1..(i - 1) : a[j] = b[j]

RECURSIVE NumVal(_)
NumVal(s) ==
    IF s = <<>> THEN 0
    ELSE NumVal(SubSeq(s, 1, Len(s) - 1)) * 10 + DigitVal(s[Len(s)])

ParseU32(value) ==
    LET body == IF Len(value) > 1 /\ value[1] = "+" THEN Tail(value) ELSE value
        sig == StripZeros(body)
    IN  IF body = <<>> \/ \E i \in 1..Len(body) : ~IsDigit(body[i])
        THEN <<>>
        ELSE IF Len(sig) > Len(U32MaxDigits)
                \/ (Len(sig) = Len(U32MaxDigits) /\ DigitsGreater(sig, U32MaxDigits))
        THEN <<>>
        ELSE <<NumVal(sig)>>

UnwrapOr(opt, dflt) == IF opt = <<>> THEN dflt ELSE opt[1]

-----------------------------------------------------------------------------
(* SacctOptions::to_args                                                   *)

DefaultFields ==
    <<"JobIDRaw", "JobName", "User", "State", "Elapsed", "NodeList", "AllocCPUS">>

Max(a, b) == IF a >= b THEN a ELSE b

\* variant of StartToken: the window is not clamped to one hour
StartTokenUnclamped(opts) == "now-" \o FormatU32(opts.recent_hours) \o "hours"

\* -S now-<h>hours
StartToken(opts) == "now-" \o FormatU32(Max(opts.recent_hours, 1)) \o "hours"

\* variant of UserArgs: Some("") is emitted too
UserArgsEmitsEmpty(opts) ==
    IF opts.user # <<>> THEN <<"--user", opts.user[1]>> ELSE <<>>

UserArgs(opts) ==
    IF opts.user # <<>> /\ opts.user[1] # ""
    THEN <<"--user", opts.user[1]>>
    ELSE <<>>

PartitionArgs(opts) ==
    IF opts.partitions # <<>>
    THEN <<"--partition", Join(opts.partitions, ",")>>
    ELSE <<>>

QosArgs(opts) ==
    IF opts.qos # <<>> THEN <<"--qos", Join(opts.qos, ",")>> ELSE <<>>

StateArgs(opts) ==
    IF opts.states # <<>>
    THEN <<"--state",
           Join([i \in 1..Len(opts.states) |-> JobStateToString(opts.states[i])], ",")>>
    ELSE <<>>

\* the loop over format_fields with the HashSet `unique`
RECURSIVE ToArgsDedup(_, _, _)
ToArgsDedup(rest, unique, out) ==
    IF rest = <<>> THEN out
    ELSE IF Head(rest) \in unique
    THEN ToArgsDedup(Tail(rest), unique, out)
    ELSE ToArgsDedup(Tail(rest), unique \cup {Head(rest)}, Append(out, Head(rest)))

ToArgsFields(format_fields) ==
    LET deduped == ToArgsDedup(format_fields, {}, <<>>)
    IN  IF deduped = <<>> THEN DefaultFields ELSE deduped

FormatArgs(opts) == <<"--format", Join(ToArgsFields(opts.format_fields), ",")>>

ToArgs(opts) ==
    <<"-n", "-P", "-X">>
    \o <<"-S", StartToken(opts), "-E", "now">>
    \o UserArgs(opts)
    \o PartitionArgs(opts)
    \o QosArgs(opts)
    \o StateArgs(opts)
    \o FormatArgs(opts)

-----------------------------------------------------------------------------
(* parse_sacct_output: pure parts                                          *)

RECURSIVE ParseDedup(_, _, _)
ParseDedup(rest, unique, out) ==
    IF rest = <<>> THEN out
    ELSE IF Head(rest) \in unique
    THEN ParseDedup(Tail(rest), unique, out)
    ELSE ParseDedup(Tail(rest), unique \cup {Head(rest)}, Append(out, Head(rest)))

\* variant of ParseFields: the duplicates are kept
ParseFieldsKeepsDuplicates(format_fields) ==
    IF format_fields = <<>> THEN DefaultFields ELSE format_fields

ParseFields(format_fields) ==
    LET deduped == ParseDedup(format_fields, {}, <<>>)
    IN  IF deduped = <<>> THEN DefaultFields ELSE deduped

Unknown == <<"U", "n", "k", "n", "o", "w", "n">>
NotAvailable == <<"N", "/", "A">>

\* variant of IsSkipped: only the empty value is skipped
IsSkippedOnlyEmpty(value) == value = <<>>

\* value.is_empty() || value == "Unknown" || value == "N/A"
IsSkipped(value) == value = <<>> \/ value = Unknown \/ value = NotAvailable

\* variant of AssignField: NCPUS is written to nodes
AssignFieldNcpusToNodes(j, f, value) ==
    CASE f \in {"JobIDRaw", "JobID"} -> [j EXCEPT !.id = value]
      [] f = "JobName" -> [j EXCEPT !.name = value]
      [] f = "User" -> [j EXCEPT !.user = value]
      [] f = "State" -> [j EXCEPT !.state = UnwrapOr(ParseJobState(value), "Other")]
      [] f = "Elapsed" -> [j EXCEPT !.time = value]
      [] f = "NNodes" -> [j EXCEPT !.nodes = UnwrapOr(ParseU32(value), 0)]
      [] f = "NodeList" -> [j EXCEPT !.node = <<value>>]
      [] f = "AllocCPUS" -> [j EXCEPT !.cpus = UnwrapOr(ParseU32(value), 0)]
      [] f = "NCPUS" -> [j EXCEPT !.nodes = UnwrapOr(ParseU32(value), 0)]
      [] f = "ReqMem" -> [j EXCEPT !.memory = value]
      [] f = "Partition" -> [j EXCEPT !.partition = value]
      [] f = "QOS" -> [j EXCEPT !.qos = value]
      [] f = "Account" -> [j EXCEPT !.account = <<value>>]
      [] f = "Priority" -> [j EXCEPT !.priority = ParseU32(value)]
      [] f = "WorkDir" -> [j EXCEPT !.work_dir = <<value>>]
      [] f = "Submit" -> [j EXCEPT !.submit_time = <<value>>]
      [] f = "Start" -> [j EXCEPT !.start_time = <<value>>]
      [] f = "End" -> [j EXCEPT !.end_time = <<value>>]
      [] f = "Reason" -> [j EXCEPT !.pending_reason = <<value>>]
      [] OTHER -> j

\* variant of AssignField: a second id column does not overwrite the id
AssignFieldKeepsFirstId(j, f, value) ==
    CASE f \in {"JobIDRaw", "JobID"} ->
            IF j.id = <<>> THEN [j EXCEPT !.id = value] ELSE j
      [] f = "JobName" -> [j EXCEPT !.name = value]
      [] f = "User" -> [j EXCEPT !.user = value]
      [] f = "State" -> [j EXCEPT !.state = UnwrapOr(ParseJobState(value), "Other")]
      [] f = "Elapsed" -> [j EXCEPT !.time = value]
      [] f = "NNodes" -> [j EXCEPT !.nodes = UnwrapOr(ParseU32(value), 0)]
      [] f = "NodeList" -> [j EXCEPT !.node = <<value>>]
      [] f \in {"AllocCPUS", "NCPUS"} -> [j EXCEPT !.cpus = UnwrapOr(ParseU32(value), 0)]
      [] f = "ReqMem" -> [j EXCEPT !.memory = value]
      [] f = "Partition" -> [j EXCEPT !.partition = value]
      [] f = "QOS" -> [j EXCEPT !.qos = value]
      [] f = "Account" -> [j EXCEPT !.account = <<value>>]
      [] f = "Priority" -> [j EXCEPT !.priority = ParseU32(value)]
      [] f = "WorkDir" -> [j EXCEPT !.work_dir = <<value>>]
      [] f = "Submit" -> [j EXCEPT !.submit_time = <<value>>]
      [] f = "Start" -> [j EXCEPT !.start_time = <<value>>]
      [] f = "End" -> [j EXCEPT !.end_time = <<value>>]
      [] f = "Reason" -> [j EXCEPT !.pending_reason = <<value>>]
      [] OTHER -> j

\* match fields[idx] { ... }
AssignField(j, f, value) ==
    CASE f \in {"JobIDRaw", "JobID"} -> [j EXCEPT !.id = value]
      [] f = "JobName" -> [j EXCEPT !.name = value]
      [] f = "User" -> [j EXCEPT !.user = value]
      [] f = "State" -> [j EXCEPT !.state = UnwrapOr(ParseJobState(value), "Other")]
      [] f = "Elapsed" -> [j EXCEPT !.time = value]
      [] f = "NNodes" -> [j EXCEPT !.nodes = UnwrapOr(ParseU32(value), 0)]
      [] f = "NodeList" -> [j EXCEPT !.node = <<value>>]
      [] f \in {"AllocCPUS", "NCPUS"} -> [j EXCEPT !.cpus = UnwrapOr(ParseU32(value), 0)]
      [] f = "ReqMem" -> [j EXCEPT !.memory = value]
      [] f = "Partition" -> [j EXCEPT !.partition = value]
      [] f = "QOS" -> [j EXCEPT !.qos = value]
      [] f = "Account" -> [j EXCEPT !.account = <<value>>]
      [] f = "Priority" -> [j EXCEPT !.priority = ParseU32(value)]
      [] f = "WorkDir" -> [j EXCEPT !.work_dir = <<value>>]
      [] f = "Submit" -> [j EXCEPT !.submit_time = <<value>>]
      [] f = "Start" -> [j EXCEPT !.start_time = <<value>>]
      [] f = "End" -> [j EXCEPT !.end_time = <<value>>]
      [] f = "Reason" -> [j EXCEPT !.pending_reason = <<value>>]
      [] OTHER -> j

\* String::from_utf8_lossy: an invalid byte becomes U+FFFD.
InvalidByte == "<FF>"
ReplacementChar == "<U+FFFD>"
FromUtf8Lossy(bytes) ==
    [i \in 1..Len(bytes) |-> IF bytes[i] = InvalidByte THEN ReplacementChar ELSE bytes[i]]

\* eyre!("sacct failed: {}", stderr.trim())
SacctFailedPrefix == <<"s", "a", "c", "c", "t", " ", "f", "a", "i", "l", "e", "d", ":", " ">>
FailureMessage(err_text) == SacctFailedPrefix \o Trim(err_text)

-----------------------------------------------------------------------------
(* Outcomes (color_eyre::Result<Vec<Job>>).                                *)

NoResult == [kind |-> "none", jobs |-> <<>>, msg |-> <<>>]
Ok(js) == [kind |-> "ok", jobs |-> js, msg |-> <<>>]
Err(m) == [kind |-> "err", jobs |-> <<>>, msg |-> m]
\* the io::Error of a command that could not be started, passed on by `?`
IoError == [kind |-> "io_err", jobs |-> <<>>, msg |-> <<>>]

\* async_process::Command::new(..).args(..).output(): kill_on_drop is never
\* set on the Command, so the child is left to run when its future is dropped.
KillOnDrop == FALSE

-----------------------------------------------------------------------------
(* run_sacct                                                               *)

\* let args = options.to_args();
BuildArgs ==
    /\ pc = "start"
    /\ args' = ToArgs(options)
    /\ pc' = "spawn"
    /\ UNCHANGED <<options, procVars, stdout, result, parseVars, vals>>

\* Command::new("sacct")...output(): the process cannot be started -> `?`
SpawnFails ==
    /\ pc = "spawn"
    /\ spawns' = spawns + 1
    /\ result' = IoError
    /\ pc' = "done"
    /\ UNCHANGED <<options, args, proc, exit_ok, raw_out, raw_err, cancelled,
                   stdout, parseVars, vals>>

\* the process is started; the caller awaits its output
SpawnStarts ==
    /\ pc = "spawn"
    /\ spawns' = spawns + 1
    /\ proc' = "running"
    /\ pc' = "await"
    /\ UNCHANGED <<options, args, exit_ok, raw_out, raw_err, cancelled,
                   stdout, result, parseVars, vals>>

\* the external process ends, whoever still waits for it
ProcessExits(ok, out, err) ==
    /\ proc = "running"
    /\ proc' = "exited"
    /\ exit_ok' = ok
    /\ raw_out' = out
    /\ raw_err' = err
    /\ UNCHANGED <<options, args, pc, spawns, cancelled, stdout, result,
                   parseVars, vals>>

\* variant of ReturnFailure: the status is ignored and stdout is parsed
ReturnFailureParsesAnyway ==
    /\ pc = "await"
    /\ proc = "exited"
    /\ ~exit_ok
    /\ stdout' = FromUtf8Lossy(raw_out)
    /\ pc' = "parse"
    /\ UNCHANGED <<options, args, procVars, result, parseVars, vals>>

\* .await returns the Output; status failed -> Err with the trimmed stderr
ReturnFailure ==
    /\ pc = "await"
    /\ proc = "exited"
    /\ ~exit_ok
    /\ result' = Err(FailureMessage(FromUtf8Lossy(raw_err)))
    /\ pc' = "done"
    /\ UNCHANGED <<options, args, procVars, stdout, parseVars, vals>>

\* .await returns the Output; status ok -> decode stdout and parse it
DecodeStdout ==
    /\ pc = "await"
    /\ proc = "exited"
    /\ exit_ok
    /\ stdout' = FromUtf8Lossy(raw_out)
    /\ pc' = "parse"
    /\ UNCHANGED <<options, args, procVars, result, parseVars, vals>>

\* the caller's future is dropped while it awaits the output
Cancel ==
    /\ pc = "await"
    /\ cancelled' = TRUE
    /\ pc' = "dropped"
    /\ proc' = IF proc = "running" /\ KillOnDrop THEN "killed" ELSE proc
    /\ UNCHANGED <<options, args, spawns, exit_ok, raw_out, raw_err, stdout,
                   result, parseVars, vals>>

-----------------------------------------------------------------------------
(* parse_sacct_output(stdout, format_fields)                               *)

\* if stdout.trim().is_empty() { return Ok(Vec::new()) }
ParseEmpty ==
    /\ pc = "parse"
    /\ Trim(stdout) = <<>>
    /\ result' = Ok(<<>>)
    /\ pc' = "done"
    /\ UNCHANGED <<options, args, procVars, stdout, parseVars, vals>>

\* dedupe the fields, start the loop over stdout.lines()
ParseBegin ==
    /\ pc = "parse"
    /\ Trim(stdout) # <<>>
    /\ fields' = ParseFields(options.format_fields)
    /\ lines' = StrLines(stdout)
    /\ li' = 1
    /\ jobs' = <<>>
    /\ srcs' = <<>>
    /\ pc' = "lines"
    /\ UNCHANGED <<options, args, procVars, stdout, result, parts, idx, job, vals>>

\* let line = line.trim(); if line.is_empty() { continue }
SkipBlankLine ==
    /\ pc = "lines"
    /\ li <= Len(lines)
    /\ Trim(lines[li]) = <<>>
    /\ li' = li + 1
    /\ UNCHANGED <<options, args, procVars, stdout, result, pc, fields, lines,
                   parts, idx, job, jobs, srcs, vals>>

\* parts = line.split('|'); job = Job::default()
\* (parts is never empty: split yields at least one piece)
StartLine ==
    /\ pc = "lines"
    /\ li <= Len(lines)
    /\ Trim(lines[li]) # <<>>
    /\ parts' = SplitOn(Trim(lines[li]), "|")
    /\ job' = JobDefault
    /\ idx' = 1
    /\ pc' = "cols"
    /\ UNCHANGED <<options, args, procVars, stdout, result, fields, lines, li,
                   jobs, srcs, vals>>

ColumnsLeft == idx <= Len(parts) /\ idx <= Len(fields)

\* the trimmed value is empty, "Unknown" or "N/A": continue
SkipColumn ==
    /\ pc = "cols"
    /\ ColumnsLeft
    /\ IsSkipped(Trim(parts[idx]))
    /\ idx' = idx + 1
    /\ UNCHANGED <<options, args, procVars, stdout, result, pc, fields, lines,
                   li, parts, job, jobs, srcs, vals>>

\* match fields[idx] { ... }
AssignColumn ==
    /\ pc = "cols"
    /\ ColumnsLeft
    /\ ~IsSkipped(Trim(parts[idx]))
    /\ job' = AssignField(job, fields[idx], Trim(parts[idx]))
    /\ idx' = idx + 1
    /\ UNCHANGED <<options, args, procVars, stdout, result, pc, fields, lines,
                   li, parts, jobs, srcs, vals>>

\* the columns are used up, or idx >= fields.len(): break
ColumnsDone ==
    /\ pc = "cols"
    /\ ~ColumnsLeft
    /\ pc' = "endline"
    /\ UNCHANGED <<options, args, procVars, stdout, result, fields, lines, li,
                   parts, idx, job, jobs, srcs, vals>>

\* if job.id.is_empty() { continue }
DiscardRecord ==
    /\ pc = "endline"
    /\ job.id = <<>>
    /\ li' = li + 1
    /\ pc' = "lines"
    /\ UNCHANGED <<options, args, procVars, stdout, result, fields, lines,
                   parts, idx, job, jobs, srcs, vals>>

\* variant of PushJob: the record is kept even without an id
PushJobWithoutId ==
    /\ pc = "endline"
    /\ jobs' = Append(jobs, job)
    /\ srcs' = Append(srcs, li)
    /\ li' = li + 1
    /\ pc' = "lines"
    /\ UNCHANGED <<options, args, procVars, stdout, result, fields, lines,
                   parts, idx, job, vals>>

\* variant of PushJob: the record is put in front of the earlier ones
PushJobInFront ==
    /\ pc = "endline"
    /\ job.id # <<>>
    /\ jobs' = <<job>> \o jobs
    /\ srcs' = Append(srcs, li)
    /\ li' = li + 1
    /\ pc' = "lines"
    /\ UNCHANGED <<options, args, procVars, stdout, result, fields, lines,
                   parts, idx, job, vals>>

\* jobs.push(job)
PushJob ==
    /\ pc = "endline"
    /\ job.id # <<>>
    /\ jobs' = Append(jobs, job)
    /\ srcs' = Append(srcs, li)
    /\ li' = li + 1
    /\ pc' = "lines"
    /\ UNCHANGED <<options, args, procVars, stdout, result, fields, lines,
                   parts, idx, job, vals>>

\* Ok(jobs)
ParseEnd ==
    /\ pc = "lines"
    /\ li > Len(lines)
    /\ result' = Ok(jobs)
    /\ pc' = "done"
    /\ UNCHANGED <<options, args, procVars, stdout, parseVars, vals>>

-----------------------------------------------------------------------------
(* Inputs.                                                                 *)

\* all sequences over S of length at most n
SeqsUpTo(S, n) == UNION {[1..k -> S] : k \in 0..n}

\* the named field vocabulary, in the order of the match arms
Vocabulary ==
    <<"JobIDRaw", "JobID", "JobName", "User", "State", "Elapsed", "NNodes",
      "NodeList", "AllocCPUS", "NCPUS", "ReqMem", "Partition", "QOS", "Account",
      "Priority", "WorkDir", "Submit", "Start", "End", "Reason">>

VocabularyNames == {Vocabulary[i] : i \in 1..Len(Vocabulary)}

NoOptions ==
    [user |-> <<>>, states |-> <<>>, partitions |-> <<>>, qos |-> <<>>,
     recent_hours |-> 0, format_fields |-> <<>>]

\* to_args: every combination of small filters
ArgOptions ==
    [user : {<<>>, <<"">>, <<"alice">>},
     states : SeqsUpTo({"Completed", "Failed"}, MaxFilter),
     partitions : SeqsUpTo({"gpu", "cpu"}, MaxFilter),
     qos : SeqsUpTo({"normal"}, MaxFilter),
     recent_hours : {0, 1, 24},
     format_fields : SeqsUpTo({"State", "JobID", "Foo"}, MaxFields)]

\* run_sacct: a few queries, a few process outputs
RunOptions ==
    [user : {<<>>, <<"alice">>},
     states : {<<"Completed", "Failed">>},
     partitions : {<<>>},
     qos : {<<"normal">>},
     recent_hours : {0, 24},
     format_fields : {<<>>, <<"JobIDRaw", "JobName">>, <<"State", "JobID", "State">>,
                      <<"JobName", "JobName", "NNodes", "JobIDRaw">>}]

RunOutputs ==
    {<<>>,
     <<"\n", "\n">>,
     <<"7", "|", "a", "\n">>,
     <<"7", "|", "a", "|", "b", "|", "B", "A", "D", "|", "e", "|", "n", "|", "x", "|", "e", "x", "t", "r", "a", "\n", "9", "\n">>,
     <<"U", "n", "k", "n", "o", "w", "n", "|", "a", "\n", " ", "\n", "|", "b", "\n", " ", "N", "/", "A", " ", "\n">>,
     <<"<FF>", "|", "7", "|", "7", "|", "7", "\n", "8", "|", "8", "|", "8", "|", "8">>}

RunErrors ==
    {<<>>,
     <<" ", "s", "a", "c", "c", "t", ":", " ", "e", "r", "r", "o", "r", ":", " ", "n", "o", " ", "d", "b", "\n">>,
     <<"<FF>">>}

\* parse_sacct_output, one line: the column values ...
RawValues ==
    {<<>>,
     <<" ", "U", "n", "k", "n", "o", "w", "n">>,
     <<"N", "/", "A">>,
     <<"7">>,
     <<"C", "O", "M", "P", "L", "E", "T", "E", "D">>}

\* ... and the field lists: any list with at most one name outside CoreNames
CoreNames == {"JobIDRaw", "JobID", "Foo"}

FocusFieldLists ==
    {fl \in SeqsUpTo(VocabularyNames \cup CoreNames, MaxFields) :
        Cardinality({i \in DOMAIN fl : fl[i] \notin CoreNames}) <= 1}

OneLineTexts ==
    {JoinChars(cols, "|") \o <<"\n">> : cols \in SeqsUpTo(RawValues, MaxCols) \ {<<>>}}

\* parse_sacct_output, several lines
LineSamples ==
    {<<>>,
     <<" ", "\t">>,
     <<"7">>,
     <<"7", "|", "a">>,
     <<"|", "a">>,
     <<" ", "8", " ", "|", "b", " ", "\r">>}

LineFieldLists == {<<>>, <<"JobIDRaw">>, <<"JobName", "JobIDRaw">>}

ManyLineTexts ==
    LET texts == {JoinChars(ls, "\n") : ls \in SeqsUpTo(LineSamples, MaxLines)}
    IN  texts \cup {t \o <<"\n">> : t \in texts}

\* round trip: one value per vocabulary field
SampleValues ==
    <<<<"1", "2">>,
      <<"1", "3">>,
      <<"j">>,
      <<"u">>,
      <<"C", "O", "M", "P", "L", "E", "T", "E", "D">>,
      <<"t">>,
      <<"2">>,
      <<"n">>,
      <<"4">>,
      <<"8">>,
      <<"m">>,
      <<"p">>,
      <<"q">>,
      <<"a">>,
      <<"5">>,
      <<"/", "w">>,
      <<"s">>,
      <<"b">>,
      <<"e">>,
      <<"N", "o", "n", "e">>>>

VariedValues ==
    {<<>>,
     <<"U", "n", "k", "n", "o", "w", "n">>,
     <<"N", "/", "A">>,
     <<"x">>,
     <<"0", "7">>,
     <<" ", "y">>,
     <<"a", "|", "b">>}

\* the sample with a window of MaxVaried consecutive fields, any of them
\* replaced by a varied value
Varied ==
    {[i \in 1..Len(Vocabulary) |->
        IF i >= s /\ i < s + MaxVaried /\ (i - s + 1) \in m
        THEN w[i - s + 1]
        ELSE SampleValues[i]] :
     s \in 1..Len(Vocabulary),
     m \in SUBSET (1..MaxVaried),
     w \in [1..MaxVaried -> VariedValues]}

-----------------------------------------------------------------------------
(* Specifications.                                                         *)

InitCommon ==
    /\ args = <<>>
    /\ proc = "none"
    /\ spawns = 0
    /\ exit_ok = FALSE
    /\ raw_out = <<>>
    /\ raw_err = <<>>
    /\ result = NoResult
    /\ cancelled = FALSE
    /\ fields = <<>>
    /\ lines = <<>>
    /\ li = 0
    /\ parts = <<>>
    /\ idx = 0
    /\ job = JobDefault
    /\ jobs = <<>>
    /\ srcs = <<>>

\* a call of to_args
InitArgs ==
    /\ InitCommon
    /\ options \in ArgOptions
    /\ pc = "start"
    /\ stdout = <<>>
    /\ vals = <<>>

NextArgs == BuildArgs

SpecArgs == InitArgs /\ [][NextArgs]_vars

\* a call of run_sacct
Init ==
    /\ InitCommon
    /\ options \in RunOptions
    /\ pc = "start"
    /\ stdout = <<>>
    /\ vals = <<>>

Exit == \E ok \in BOOLEAN, out \in RunOutputs, err \in RunErrors : ProcessExits(ok, out, err)

Next ==
    \/ BuildArgs
    \/ SpawnFails
    \/ SpawnStarts
    \/ Exit
    \/ ReturnFailure
    \/ DecodeStdout
    \/ Cancel
    \/ ParseEmpty
    \/ ParseBegin
    \/ SkipBlankLine
    \/ StartLine
    \/ SkipColumn
    \/ AssignColumn
    \/ ColumnsDone
    \/ DiscardRecord
    \/ PushJob
    \/ ParseEnd

Spec == Init /\ [][Next]_vars

\* a call of parse_sacct_output
InitParse ==
    /\ InitCommon
    /\ pc = "parse"
    /\ vals = <<>>
    /\ \E fl \in FocusFieldLists \cup LineFieldLists :
          /\ options = [NoOptions EXCEPT !.format_fields = fl]
          /\ stdout \in (IF fl \in LineFieldLists THEN ManyLineTexts ELSE {})
                        \cup (IF fl \in FocusFieldLists THEN OneLineTexts ELSE {})

NextParse ==
    \/ ParseEmpty
    \/ ParseBegin
    \/ SkipBlankLine
    \/ StartLine
    \/ SkipColumn
    \/ AssignColumn
    \/ ColumnsDone
    \/ DiscardRecord
    \/ PushJob
    \/ ParseEnd

SpecParse == InitParse /\ [][NextParse]_vars

\* parse_sacct_output of one line built from a value per vocabulary field
InitRoundTrip ==
    /\ InitCommon
    /\ pc = "parse"
    /\ options = [NoOptions EXCEPT !.format_fields = Vocabulary]
    /\ vals \in Varied
    /\ stdout = JoinChars(vals, "|")

NextRoundTrip ==
    \/ ParseBegin
    \/ StartLine
    \/ SkipColumn
    \/ AssignColumn
    \/ ColumnsDone
    \/ DiscardRecord
    \/ PushJob
    \/ ParseEnd

SpecRoundTrip == InitRoundTrip /\ [][NextRoundTrip]_vars

-----------------------------------------------------------------------------
(* Properties.                                                             *)

\* the elements of s at their first occurrence, in order
FirstOccurrences(s) ==
    LET keep == {i \in 1..Len(s) : \A j \in 1..(i - 1) : s[j] # s[i]}
        Nth(k) == CHOOSE i \in keep : Cardinality({j \in keep : j <= i}) = k
    IN  [k \in 1..Cardinality(keep) |-> s[Nth(k)]]

\* the field list both sides are to use
EffectiveFields(format_fields) ==
    IF format_fields = <<>>
    THEN <<"JobIDRaw", "JobName", "User", "State", "Elapsed", "NodeList", "AllocCPUS">>
    ELSE FirstOccurrences(format_fields)

\* s[1],s[2],...,s[n] in one token
RECURSIVE CsvOf(_)
CsvOf(s) ==
    IF s = <<>> THEN ""
    ELSE IF Len(s) = 1 THEN s[1]
    ELSE CsvOf(SubSeq(s, 1, Len(s) - 1)) \o "," \o s[Len(s)]

Parsing == pc \in {"lines", "cols", "endline"}

\* C1: the field list joined into the --format token is the field list the
\* parser maps columns with: the first occurrences of format_fields in order,
\* or the default seven fields when format_fields is empty.
C1_FieldListsAgree ==
    Parsing =>
        /\ fields = EffectiveFields(options.format_fields)
        /\ args[Len(args) - 1] = "--format"
        /\ args[Len(args)] = CsvOf(fields)

C1_Witness ==
    /\ pc = "cols"
    /\ spawns = 1
    /\ options.format_fields = <<"State", "JobID", "State">>
    /\ fields = <<"State", "JobID">>
    /\ args[Len(args)] = "State,JobID"

\* C2: the token after -S is now-<h>hours with h = max(recent_hours, 1);
\* h is never 0.
C2_StartTokenClamped ==
    pc = "spawn" =>
        LET h == IF options.recent_hours = 0 THEN 1 ELSE options.recent_hours
        IN  /\ args[4] = "-S"
            /\ args[5] = "now-" \o ToString(h) \o "hours"
            /\ args[5] # "now-0hours"

C2_Witness ==
    /\ pc = "spawn"
    /\ options.recent_hours = 0
    /\ args[5] = "now-1hours"

\* C3: to_args returns -n -P -X -S <start> -E now, then --user <name> iff
\* user is Some and non-empty, --partition <csv> iff partitions is non-empty,
\* --qos <csv> iff qos is non-empty, --state <csv> iff states is non-empty,
\* and last --format <csv>; each filter value is one comma-joined token.
C3_ArgumentOrder ==
    pc = "spawn" =>
        LET o == options
            userPart == IF o.user \notin {<<>>, <<"">>}
                        THEN <<"--user", o.user[1]>> ELSE <<>>
            partPart == IF Len(o.partitions) > 0
                        THEN <<"--partition", CsvOf(o.partitions)>> ELSE <<>>
            qosPart == IF Len(o.qos) > 0 THEN <<"--qos", CsvOf(o.qos)>> ELSE <<>>
            statePart == IF Len(o.states) > 0
                         THEN <<"--state",
                                CsvOf([i \in 1..Len(o.states) |->
                                          JobStateToString(o.states[i])])>>
                         ELSE <<>>
        IN  /\ Len(args) >= 9
            /\ args = <<"-n", "-P", "-X", "-S", args[5], "-E", "now">>
                      \o userPart \o partPart \o qosPart \o statePart
                      \o <<"--format", args[Len(args)]>>

C3_Witness ==
    /\ pc = "spawn"
    /\ options.user = <<"alice">>
    /\ Len(options.partitions) = 2
    /\ Len(options.qos) = 2
    /\ Len(options.states) = 2
    /\ Len(args) = 17
    /\ args[10] = "--partition"
    /\ args[16] = "--format"

\* C9: run_sacct ends in an error iff the process could not be started or
\* exited with a failure status; the error of a failure status carries the
\* trimmed stderr, stdout is not parsed and the command is invoked once;
\* a process that exits successfully gives Ok, whatever stdout holds.
C9_ErrorOnlyOnProcessFailure ==
    /\ spawns <= 1
    /\ pc = "done" =>
          /\ spawns = 1
          /\ result.kind \in {"ok", "err", "io_err"}
          /\ result.kind = "io_err" <=> proc = "none"
          /\ result.kind = "err" <=> (proc = "exited" /\ ~exit_ok)
          /\ result.kind = "ok" <=> (proc = "exited" /\ exit_ok)
          /\ result.kind = "err" =>
                /\ result.msg = SacctFailedPrefix \o Trim(FromUtf8Lossy(raw_err))
                /\ stdout = <<>> /\ lines = <<>> /\ jobs = <<>>

C9_Witness ==
    /\ pc = "done"
    /\ result.kind = "err"
    /\ raw_out # <<>>
    /\ Trim(raw_err) # raw_err
    /\ Trim(raw_err) # <<>>
    /\ spawns = 1

\* C10: once the awaiting caller is cancelled, the external process does not
\* keep running: it is killed.
C10_CancelledProcessIsKilled == cancelled => proc # "running"

-----------------------------------------------------------------------------
(* Properties of parse_sacct_output.                                       *)

\* the Job attribute a vocabulary field stands for
AttrOf(f) ==
    CASE f \in {"JobIDRaw", "JobID"} -> "id"
      [] f = "JobName" -> "name"
      [] f = "User" -> "user"
      [] f = "State" -> "state"
      [] f = "Elapsed" -> "time"
      [] f = "NNodes" -> "nodes"
      [] f = "NodeList" -> "node"
      [] f \in {"AllocCPUS", "NCPUS"} -> "cpus"
      [] f = "ReqMem" -> "memory"
      [] f = "Partition" -> "partition"
      [] f = "QOS" -> "qos"
      [] f = "Account" -> "account"
      [] f = "Priority" -> "priority"
      [] f = "WorkDir" -> "work_dir"
      [] f = "Submit" -> "submit_time"
      [] f = "Start" -> "start_time"
      [] f = "End" -> "end_time"
      [] f = "Reason" -> "pending_reason"

Attributes == DOMAIN JobDefault
TextAttrs == {"id", "name", "user", "time", "memory", "partition", "qos"}
OptTextAttrs ==
    {"node", "account", "work_dir", "submit_time", "start_time", "end_time",
     "pending_reason"}

Sentinels == {<<>>, <<"U", "n", "k", "n", "o", "w", "n">>, <<"N", "/", "A">>}

\* a column that reports no value
Absent(col) == Trim(col) \in Sentinels

Min(a, b) == IF a <= b THEN a ELSE b

SetMax(S) == CHOOSE x \in S : \A y \in S : y <= x

\* the value an attribute takes from a reported column value
Coerce(a, v) ==
    CASE a \in TextAttrs -> v
      [] a \in OptTextAttrs -> <<v>>
      [] a \in {"nodes", "cpus"} -> UnwrapOr(ParseU32(v), 0)
      [] a = "priority" -> ParseU32(v)
      [] a = "state" -> UnwrapOr(ParseJobState(v), "Other")

\* the columns of the line being read that are mapped to attribute a and
\* report a value
BackedBy(a) ==
    LET F == EffectiveFields(options.format_fields)
    IN  {i \in 1..Min(Len(parts), Len(F)) :
            F[i] \in VocabularyNames /\ AttrOf(F[i]) = a /\ ~Absent(parts[i])}

LineYieldsJob == pc = "endline" /\ job.id # <<>>

\* C4 as stated: the attributes that differ from their default are exactly
\* those with a vocabulary field in the list whose column reports a value.
C4_PopulatedExactly ==
    LineYieldsJob =>
        \A a \in Attributes : (job[a] # JobDefault[a]) <=> (BackedBy(a) # {})

\* C4 as amended: an attribute that differs from its default has a vocabulary
\* field in the effective list whose column reports a value; a text attribute
\* with such a column differs from its default (nodes, cpus, priority and
\* state may be coerced to the default value); other names populate nothing.
C4_PopulatedOnlyIfBacked ==
    LineYieldsJob =>
        \A a \in Attributes :
            /\ (job[a] # JobDefault[a]) => (BackedBy(a) # {})
            /\ (a \in TextAttrs \cup OptTextAttrs /\ BackedBy(a) # {})
                  => (job[a] # JobDefault[a])

C4_Witness ==
    /\ LineYieldsJob
    /\ BackedBy("nodes") # {}
    /\ job.nodes = 0
    /\ job = [JobDefault EXCEPT !.id = job.id]

\* no returned Job holds a sentinel as a text attribute
C5_NoSentinelReturned ==
    result.kind = "ok" =>
        \A n \in 1..Len(result.jobs) :
            /\ \A a \in TextAttrs :
                  result.jobs[n][a] \notin (Sentinels \ {<<>>})
            /\ \A a \in OptTextAttrs :
                  result.jobs[n][a] \notin {<<v>> : v \in Sentinels}

\* C5: a column whose trimmed value is empty, "Unknown" or "N/A" leaves the
\* Job as it was, and no returned Job has a text attribute equal to "Unknown"
\* or "N/A", nor an optional text attribute present and empty.
C5_SentinelsNeverWritten ==
    /\ []C5_NoSentinelReturned
    /\ [][(pc = "cols" /\ idx <= Len(parts) /\ idx <= Len(fields)
             /\ Absent(parts[idx]))
          => (job' = job /\ idx' = idx + 1)]_vars

C5_Witness ==
    /\ pc = "done"
    /\ Len(result.jobs) > 0
    /\ srcs[Len(srcs)] = Len(lines)
    /\ \E i \in 1..Min(Len(parts), Len(fields)) :
          /\ fields[i] \in VocabularyNames
          /\ Trim(parts[i]) \in (Sentinels \ {<<>>})
          /\ Trim(parts[i]) # parts[i]

\* the columns of line l of the text
ColsOf(l) == SplitOn(Trim(StrLines(stdout)[l]), "|")

\* line l has a column for each field, and its JobIDRaw column is empty
EmptyJobIdRaw(l) ==
    LET F == EffectiveFields(options.format_fields)
    IN  /\ Len(ColsOf(l)) >= Len(F)
        /\ \E k \in 1..Len(F) : F[k] = "JobIDRaw" /\ Trim(ColsOf(l)[k]) = <<>>

\* line l has no JobID column that reports a value
NoJobIdValue(l) ==
    LET F == EffectiveFields(options.format_fields)
    IN  \A k \in 1..Min(Len(F), Len(ColsOf(l))) : F[k] = "JobID" => Absent(ColsOf(l)[k])

\* C6 as stated: a line with a column for each field and an empty JobIDRaw
\* column gives no Job, whatever the other columns hold.
C6_EmptyJobIdRawGivesNoJob ==
    \A n \in 1..Len(srcs) : ~EmptyJobIdRaw(srcs[n])

\* C6 as amended: such a line gives no Job unless the list also has a JobID
\* field whose column reports a value.
C6_EmptyIdColumnsGiveNoJob ==
    \A n \in 1..Len(srcs) : ~(EmptyJobIdRaw(srcs[n]) /\ NoJobIdValue(srcs[n]))

C6_Witness ==
    /\ pc = "done"
    /\ srcs = <<>>
    /\ \E l \in 1..Len(lines) :
          /\ EmptyJobIdRaw(l)
          /\ NoJobIdValue(l)
          /\ \E k \in 1..Min(Len(ColsOf(l)), Len(fields)) :
                fields[k] \in VocabularyNames /\ ~Absent(ColsOf(l)[k])

\* the id columns of line l that report a value
IdColsOf(l) ==
    LET F == EffectiveFields(options.format_fields)
    IN  {k \in 1..Min(Len(ColsOf(l)), Len(F)) :
            F[k] \in {"JobIDRaw", "JobID"} /\ ~Absent(ColsOf(l)[k])}

LinesWithId ==
    {l \in 1..Len(StrLines(stdout)) :
        Trim(StrLines(stdout)[l]) # <<>> /\ IdColsOf(l) # {}}

\* C8: one Job per line that is not blank and ends with an id, in the order
\* of the lines; blank lines are skipped without error; lines with the same
\* id give separate records.
C8_OneJobPerLineInOrder ==
    pc = "done" =>
        /\ result.kind = "ok"
        /\ Len(result.jobs) = Cardinality(LinesWithId)
        /\ Len(srcs) = Len(result.jobs)
        /\ \A n \in 1..Len(srcs) : srcs[n] \in LinesWithId
        /\ \A n, m \in 1..Len(srcs) : n < m => srcs[n] < srcs[m]
        /\ \A n \in 1..Len(srcs) :
              result.jobs[n].id = Trim(ColsOf(srcs[n])[SetMax(IdColsOf(srcs[n]))])

C8_Witness ==
    /\ pc = "done"
    /\ Len(lines) = 3
    /\ Trim(lines[2]) = <<>>
    /\ srcs = <<1, 3>>
    /\ result.jobs[1].id = result.jobs[2].id
    /\ result.jobs[1] # result.jobs[2]

-----------------------------------------------------------------------------
(* Round trip.                                                             *)

\* the fields of attribute a whose input value is not a sentinel
LiveFields(a) ==
    {i \in 1..Len(Vocabulary) : AttrOf(Vocabulary[i]) = a /\ vals[i] \notin Sentinels}

\* no value holds the delimiter or a line break, or starts or ends with
\* white space
CleanValues ==
    \A i \in 1..Len(vals) :
        /\ Trim(vals[i]) = vals[i]
        /\ \A k \in 1..Len(vals[i]) : vals[i][k] \notin {"|", "\n"}

\* C7 as stated: every populated attribute equals the input value of its
\* field, and a field whose value is a sentinel leaves its attribute at
\* default.
C7_RoundTrip ==
    (pc = "done" /\ vals # <<>> /\ Len(result.jobs) = 1) =>
        \A i \in 1..Len(Vocabulary) :
            LET a == AttrOf(Vocabulary[i])
                j == result.jobs[1]
            IN  /\ vals[i] \in Sentinels => j[a] = JobDefault[a]
                /\ (vals[i] \notin Sentinels /\ j[a] # JobDefault[a])
                      => j[a] = Coerce(a, vals[i])

\* C7 as amended: for values without delimiter, line break or surrounding
\* white space, the line gives a Job iff JobIDRaw or JobID has a value that
\* is not a sentinel; each attribute holds the coerced value of the last
\* field mapped to it whose value is not a sentinel, and its default when
\* every field mapped to it has a sentinel value.
C7_RoundTripLastFieldWins ==
    (pc = "done" /\ vals # <<>> /\ CleanValues) =>
        /\ Len(result.jobs) = IF LiveFields("id") # {} THEN 1 ELSE 0
        /\ \A n \in 1..Len(result.jobs) : \A a \in Attributes :
              result.jobs[n][a] =
                  IF LiveFields(a) = {}
                  THEN JobDefault[a]
                  ELSE Coerce(a, vals[SetMax(LiveFields(a))])

C7_Witness ==
    /\ pc = "done"
    /\ CleanValues
    /\ vals[1] = <<>>
    /\ vals[2] = <<"0", "7">>
    /\ Len(result.jobs) = 1
    /\ result.jobs[1].id = <<"0", "7">>

=============================================================================
